---- MODULE Spec2Model ----
(***************************************************************************)
(* Model of the proxy control plane of src/src/proxy.c: the global proxy   *)
(* list, the proxy ID tree, the per-proxy server lists with their check    *)
(* tasks, the listener lifecycle driven by start_proxies /                 *)
(* maintain_proxies / pause_proxies / listen_proxies / soft_stop /         *)
(* stop_proxy, and session_set_backend.                                    *)
(*                                                                         *)
(* Objects are identified by their address (a small integer, 0 = NULL).    *)
(* Collaborators that live outside proxy.c (listener handle, ticks,        *)
(* get_next_id, the socket calls) are modelled from their documented       *)
(* contract; socket and allocator results are inputs of the actions.       *)
(***************************************************************************)
EXTENDS Integers, Sequences, FiniteSets, TLC

\* ------------------------------------------------------------------ bounds
MaxPx == 3          \* proxy addresses 1..MaxPx
MaxSrv == 2         \* server addresses 1..MaxSrv
MaxConn == 1        \* cfg_maxpconn / per-proxy maxconn
GlobalMaxconn == 2  \* global.maxconn
MaxTime == 2        \* now_ms ranges over 1..MaxTime
CfgGrace == 1       \* grace of the configured frontend, in ticks
MaxSess == 2        \* sessions 1..MaxSess

NULL == 0
DEF_RISETIME == 2   \* the rise count of the default-server template
DEF_CHKINTR == 1    \* the check interval of the default-server template, in ticks
PxAddr == 1..MaxPx
SrvAddr == 1..MaxSrv
LiIds == 1..3
SessIds == 1..MaxSess

\* --------------------------------------------------------------- constants
PR_STNEW == "NEW"
PR_STIDLE == "IDLE"
PR_STRUN == "RUN"
PR_STPAUSED == "PAUSED"
PR_STSTOPPED == "STOPPED"
PR_STERROR == "ERROR"

PR_CAP_FE == "FE"
PR_CAP_BE == "BE"
PR_CAP_RS == "RS"

\* listener states, ordered as the code compares them (l->state >= LI_ASSIGNED)
LI_NEW == 0
LI_INIT == 1
LI_ASSIGNED == 2
LI_LISTEN == 3
LI_READY == 4

\* error bits; a code is the set of its bits, bitwise OR is set union
ERR_NONE == {}
ERR_RETRYABLE == "RETRYABLE"
ERR_FATAL == "FATAL"
ERR_ABORT == "ABORT"
ERR_ALERT == "ALERT"
ERR_CODE == {ERR_RETRYABLE, ERR_FATAL, ERR_ABORT}

\* what tcp_bind_listener can return for a listener in LI_ASSIGNED
BindResults ==
    { ERR_NONE,
      {ERR_RETRYABLE, ERR_ALERT},
      {ERR_FATAL, ERR_ALERT},
      {ERR_FATAL, ERR_ABORT, ERR_ALERT} }
NOCALL == {"NOCALL"}

\* the observable outcomes of shutdown(WR) && listen && shutdown(RD)
SockOutcomes == {"ok", "wr_fail", "listen_fail", "rd_fail"}

\* names are sequences of characters
Digits == <<"0", "1", "2", "3", "4", "5", "6", "7", "8", "9">>
SrvNames == { <<"s">>, <<"t">>, <<"#", "0">> }
RegNames == { <<"n">>, <<"b">>, <<"f">> }
Domains == { "d1" }

VARIABLES
    proxy,          \* the global list of proxies: a sequence of addresses, head first
    px,             \* px[a]: the struct proxy at address a (NoPx when not allocated)
    li,             \* li[l]: the struct listener l: state and read readiness of its fd
    listeners,      \* the global listeners counter
    used_proxy_id,  \* the nodes linked in the used_proxy_id tree, by owning address
    id_dangling,    \* TRUE once a node of used_proxy_id lies in freed memory
    srv,            \* srv[a]: the struct server at address a (NoSrv when not allocated)
    tasks,          \* the scheduler's queue: the set of queued check tasks
    actconn,        \* global count of active sessions
    stopping,       \* global flag set by soft_stop
    now_ms,         \* current tick
    wait,           \* wait[a]: what next_event_delay would report for proxy a
    sess,           \* sess[s]: the struct session s
    hist            \* the last operation: its arguments, inputs and results

vars == << proxy, px, li, listeners, used_proxy_id, id_dangling, srv, tasks,
           actconn, stopping, now_ms, wait, sess, hist >>


\* ----------------------------------------------------------------- helpers
Range(s) == { s[i] : i \in 1..Len(s) }

Live(a) == a \in Range(proxy)

\* a struct proxy as calloc + the defaults of addbackend / the config leave it
NewProxy(name, caps, uid) ==
    [ id |-> name, cap |-> caps, state |-> PR_STNEW, uuid |-> uid,
      maxconn |-> MaxConn, feconn |-> 0, fe_sps_lim |-> 0,
      grace |-> 0, stop_time |-> 0,
      listen |-> << >>, srv |-> << >>,
      defbe |-> NULL, switching_rules |-> << >>, switching_hashtbl |-> {},
      beconn |-> 0, cum_beconn |-> 0, beconn_max |-> 0,
      acl_l7 |-> FALSE ]

\* memory that holds no struct proxy / struct server
NoPx == [ NewProxy(<< >>, {}, 0) EXCEPT !.state = "NONE" ]
NoSrv == [ id |-> << >>, puid |-> 0, state |-> {}, health |-> 0, proxy |-> NULL,
           check |-> NULL, live |-> FALSE ]

\* a session a frontend accepted: no backend yet, no header index
NoSess == [ be |-> NULL, be_assigned |-> FALSE, hdr_idx |-> FALSE, be_ana |-> FALSE ]

NoHist ==
    [ op |-> "init", px |-> NULL, sid |-> NULL, ret |-> -1, err |-> ERR_NONE,
      pre |-> [ a \in PxAddr |-> "NONE" ],
      bind |-> [ l \in LiIds |-> NOCALL ],
      paused |-> {}, okl |-> {}, nolisten |-> {},
      name |-> << >>, sv |-> << >>, out_bk |-> NULL, out_sv |-> NULL,
      freed |-> {} ]

PreStates == [ a \in PxAddr |-> px[a].state ]

\* ------------------------------------------------------------------- ticks
tick_add(now, timeout) ==
    IF now + timeout = 0 THEN 1 ELSE now + timeout

tick_is_expired(timer, now) ==
    IF timer = 0 THEN FALSE ELSE timer - now <= 0

tick_remain(now, exp) ==
    IF tick_is_expired(exp, now) THEN 0 ELSE exp - now

\* --------------------------------------------------------- listener handle
tcp_bind_listener(l, res) ==
    IF l.state # LI_ASSIGNED THEN l
    ELSE IF res \cap ERR_CODE # {} THEN l
    ELSE [ l EXCEPT !.state = LI_LISTEN ]

\* the code tcp_bind_listener returns
tcp_bind_result(l, res) ==
    IF l.state # LI_ASSIGNED THEN ERR_NONE ELSE res

enable_listener(l) ==
    IF l.state = LI_LISTEN THEN [ state |-> LI_READY, rd |-> TRUE ] ELSE l

disable_listener(l) ==
    IF l.state < LI_READY THEN l ELSE [ state |-> LI_LISTEN, rd |-> FALSE ]

unbind_listener(l) ==
    IF l.state >= LI_LISTEN THEN [ state |-> LI_ASSIGNED, rd |-> FALSE ] ELSE l

delete_listener(l) ==
    IF l.state # LI_ASSIGNED THEN l ELSE [ l EXCEPT !.state = LI_INIT ]

\* a total function over the listeners from one over the consulted ones
Extend(f, dflt) == [ l \in LiIds |-> IF l \in DOMAIN f THEN f[l] ELSE dflt ]

\* -------------------------------------------------------------------- Init
\* the configured proxies: uuid = position in the configuration
CfgFrontend ==
    [ NewProxy(<<"f">>, {PR_CAP_FE, PR_CAP_RS}, 1) EXCEPT
        !.listen = <<1, 2>>, !.fe_sps_lim = 1, !.grace = CfgGrace ]

CfgBackend ==
    [ NewProxy(<<"b">>, {PR_CAP_BE, PR_CAP_RS}, 2) EXCEPT !.acl_l7 = FALSE ]

CfgListen ==
    [ NewProxy(<<"l">>, {PR_CAP_FE, PR_CAP_BE, PR_CAP_RS}, 2) EXCEPT
        !.listen = <<3>>, !.acl_l7 = TRUE ]

\* the state once the configuration cfg (a sequence of proxies, in list order,
\* the proxy at position i at address i) is loaded
InitWith(cfg) ==
    /\ proxy = [ i \in 1..Len(cfg) |-> i ]
    /\ px = [ a \in PxAddr |-> IF a <= Len(cfg) THEN cfg[a] ELSE NoPx ]
    /\ li = [ l \in LiIds |->
                IF \E i \in 1..Len(cfg) : l \in Range(cfg[i].listen)
                THEN [ state |-> LI_ASSIGNED, rd |-> FALSE ]
                ELSE [ state |-> LI_NEW, rd |-> FALSE ] ]
    /\ listeners = Cardinality({ l \in LiIds :
                                   \E i \in 1..Len(cfg) : l \in Range(cfg[i].listen) })
    /\ used_proxy_id = 1..Len(cfg)
    /\ id_dangling = FALSE
    /\ srv = [ a \in SrvAddr |-> NoSrv ]
    /\ tasks = {}
    /\ actconn = 0
    /\ stopping = FALSE
    /\ now_ms = 1
    /\ wait = [ a \in PxAddr |-> 0 ]
    /\ sess = [ s \in SessIds |-> NoSess ]
    /\ hist = NoHist

\* one configured frontend with two listeners; backends are added at run time
Init == InitWith(<< CfgFrontend >>)

\* a configured frontend followed by a configured backend or listen proxy
InitCfg == \E p2 \in {CfgBackend, CfgListen} : InitWith(<< CfgFrontend, p2 >>)

\* ------------------------------------------------------------- pause_proxy
\* One listener's shutdown(WR) && listen && shutdown(RD): an unbound listener
\* has no valid fd, so its first call fails
SockOutcomeOk(l, out) == l.state >= LI_LISTEN \/ out = "wr_fail"

RECURSIVE PauseLoop(_, _, _, _, _)
PauseLoop(ls, k, st, lis, io) ==
    IF k > Len(ls) THEN [ state |-> st, li |-> lis ]
    ELSE IF io[ls[k]] = "ok"
         THEN PauseLoop(ls, k + 1,
                        IF st # PR_STERROR THEN PR_STPAUSED ELSE st,
                        [ lis EXCEPT ![ls[k]].rd = FALSE ], io)
         ELSE PauseLoop(ls, k + 1, PR_STERROR, lis, io)

RECURSIVE PauseLoop_NoErrCheck(_, _, _, _, _)
PauseLoop_NoErrCheck(ls, k, st, lis, io) ==
    IF k > Len(ls) THEN [ state |-> st, li |-> lis ]
    ELSE IF io[ls[k]] = "ok"
         THEN PauseLoop_NoErrCheck(ls, k + 1, PR_STPAUSED,
                                   [ lis EXCEPT ![ls[k]].rd = FALSE ], io)
         ELSE PauseLoop_NoErrCheck(ls, k + 1, PR_STERROR, lis, io)

\* a pause_proxy whose successful listener sets PAUSED without looking at ERROR
pause_proxy_NoErrCheck(p, lis, io) ==
    PauseLoop_NoErrCheck(p.listen, 1, p.state, lis, io)

\* pause_proxy(p): the new state of p and of the listeners
pause_proxy(p, lis, io) == PauseLoop(p.listen, 1, p.state, lis, io)

\* -------------------------------------------------------------- stop_proxy
RECURSIVE StopLoop_AlwaysCount(_, _, _, _)
\* a listener loop that counts a listener down whatever state it is in
StopLoop_AlwaysCount(ls, k, lis, cnt) ==
    IF k > Len(ls) THEN [ li |-> lis, listeners |-> cnt ]
    ELSE LET u == unbind_listener(lis[ls[k]])
         IN StopLoop_AlwaysCount(ls, k + 1,
                                 [ lis EXCEPT ![ls[k]] = delete_listener(u) ], cnt - 1)

RECURSIVE StopLoop(_, _, _, _)
StopLoop(ls, k, lis, cnt) ==
    IF k > Len(ls) THEN [ li |-> lis, listeners |-> cnt ]
    ELSE LET u == unbind_listener(lis[ls[k]])
         IN IF u.state >= LI_ASSIGNED
            THEN StopLoop(ls, k + 1, [ lis EXCEPT ![ls[k]] = delete_listener(u) ], cnt - 1)
            ELSE StopLoop(ls, k + 1, [ lis EXCEPT ![ls[k]] = u ], cnt)

\* stop_proxy(p) on the state st = [px, li, listeners]
stop_proxy(a, st) ==
    LET r == StopLoop(st.px[a].listen, 1, st.li, st.listeners)
    IN [ px |-> [ st.px EXCEPT ![a].state = PR_STSTOPPED ],
         li |-> r.li, listeners |-> r.listeners ]

\* ----------------------------------------------------------- start_proxies
RECURSIVE BindLoop(_, _, _, _)
\* the listener loop of one proxy; acc = [li, err, pxerr, bind]
BindLoop(ls, k, acc, res) ==
    IF k > Len(ls) THEN acc
    ELSE LET l == ls[k]
         IN IF acc.li[l].state # LI_ASSIGNED
            THEN BindLoop(ls, k + 1, acc, res)
            ELSE LET lerr == tcp_bind_result(acc.li[l], res[l])
                     nxt == [ acc EXCEPT
                                !.li[l] = tcp_bind_listener(acc.li[l], res[l]),
                                !.err = acc.err \cup lerr,
                                !.bind[l] = lerr ]
                 IN IF lerr \cap {ERR_ABORT, ERR_FATAL} # {}
                    THEN [ nxt EXCEPT !.pxerr = TRUE ]
                    ELSE IF lerr \cap ERR_CODE # {}
                         THEN BindLoop(ls, k + 1, [ nxt EXCEPT !.pxerr = TRUE ], res)
                         ELSE BindLoop(ls, k + 1, nxt, res)

\* a proxy of the list that is marked started whatever its binds returned
StartOne_IgnoreErr(a, acc, res) ==
    LET r == BindLoop(acc.px[a].listen, 1,
                      [ li |-> acc.li, err |-> acc.err,
                        pxerr |-> FALSE, bind |-> acc.bind ], res)
    IN [ px |-> [ acc.px EXCEPT ![a].state = PR_STIDLE ],
         li |-> r.li, err |-> r.err, bind |-> r.bind ]

\* the body of the proxy loop for one NEW proxy; acc = [px, li, err, bind]
StartOne(a, acc, res) ==
    LET r == BindLoop(acc.px[a].listen, 1,
                      [ li |-> acc.li, err |-> acc.err,
                        pxerr |-> FALSE, bind |-> acc.bind ], res)
    IN [ px |-> IF ~r.pxerr
                THEN [ acc.px EXCEPT ![a].state = PR_STIDLE ]
                ELSE acc.px,
         li |-> r.li, err |-> r.err, bind |-> r.bind ]

RECURSIVE StartLoop_ContinueOnAbort(_, _, _)
\* a proxy loop that goes on to the next proxy after an ERR_ABORT
StartLoop_ContinueOnAbort(i, acc, res) ==
    IF i > Len(proxy) THEN acc
    ELSE LET a == proxy[i]
         IN IF acc.px[a].state # PR_STNEW
            THEN StartLoop_ContinueOnAbort(i + 1, acc, res)
            ELSE StartLoop_ContinueOnAbort(i + 1, StartOne(a, acc, res), res)

RECURSIVE StartLoop(_, _, _)
\* the proxy loop
StartLoop(i, acc, res) ==
    IF i > Len(proxy) THEN acc
    ELSE LET a == proxy[i]
         IN IF acc.px[a].state # PR_STNEW
            THEN StartLoop(i + 1, acc, res)
            ELSE LET nxt == StartOne(a, acc, res)
                 IN IF ERR_ABORT \in nxt.err
                    THEN nxt
                    ELSE StartLoop(i + 1, nxt, res)

start_proxies(res) ==
    StartLoop(1, [ px |-> px, li |-> li, err |-> ERR_NONE,
                   bind |-> [ l \in LiIds |-> NOCALL ] ], res)

\* the listeners start_proxies may try to bind: the others' results are not inputs
Bindable == { l \in LiIds : li[l].state = LI_ASSIGNED /\
                \E a \in Range(proxy) : px[a].state = PR_STNEW /\ l \in Range(px[a].listen) }

StartProxies ==
    \E res \in { Extend(f, ERR_NONE) : f \in [ Bindable -> BindResults ] } :
        /\ LET r == start_proxies(res)
           IN /\ px' = r.px
              /\ li' = r.li
              /\ hist' = [ NoHist EXCEPT !.op = "start_proxies", !.pre = PreStates,
                                         !.bind = r.bind, !.err = r.err ]
        /\ UNCHANGED << proxy, listeners, used_proxy_id, id_dangling, srv, tasks,
                        actconn, stopping, now_ms, wait, sess >>

\* -------------------------------------------------------- maintain_proxies
\* a block test that lets a frontend reach maxconn + 1 sessions
Blocked_OffByOne(p, w) == p.feconn > p.maxconn \/ (p.fe_sps_lim # 0 /\ w # 0)

\* a block test that only looks at the session rate
Blocked_RateOnly(p, w) == p.fe_sps_lim # 0 /\ w # 0

\* the reasons maintain_proxies finds to block a frontend; w is the delay
\* next_event_delay reports
Blocked(p, w) == p.feconn >= p.maxconn \/ (p.fe_sps_lim # 0 /\ w # 0)

\* for (l = p->listen; l; l = l->next) enable_listener(l)
EnableListeners(a, st) ==
    [ st EXCEPT !.li = [ l \in LiIds |-> IF l \in Range(st.px[a].listen)
                                         THEN enable_listener(st.li[l]) ELSE st.li[l] ] ]

\* for (l = p->listen; l; l = l->next) disable_listener(l)
DisableListeners(a, st) ==
    [ st EXCEPT !.li = [ l \in LiIds |-> IF l \in Range(st.px[a].listen)
                                         THEN disable_listener(st.li[l]) ELSE st.li[l] ] ]

\* an admission step that marks an IDLE proxy RUNNING without enabling its
\* listeners
AdmitOne_NoEnable(a, st) ==
    IF actconn < GlobalMaxconn
    THEN IF Blocked(st.px[a], wait[a])
         THEN IF st.px[a].state = PR_STRUN
              THEN [ DisableListeners(a, st) EXCEPT !.px[a].state = PR_STIDLE ]
              ELSE st
         ELSE IF st.px[a].state = PR_STIDLE
              THEN [ st EXCEPT !.px[a].state = PR_STRUN ]
              ELSE st
    ELSE IF st.px[a].state = PR_STRUN
         THEN [ DisableListeners(a, st) EXCEPT !.px[a].state = PR_STIDLE ]
         ELSE st

\* an admission step that also unblocks a proxy that was never started
AdmitOne_AdmitNew(a, st) ==
    IF actconn < GlobalMaxconn
    THEN IF Blocked(st.px[a], wait[a])
         THEN IF st.px[a].state = PR_STRUN
              THEN [ DisableListeners(a, st) EXCEPT !.px[a].state = PR_STIDLE ]
              ELSE st
         ELSE IF st.px[a].state \in {PR_STIDLE, PR_STNEW}
              THEN [ EnableListeners(a, st) EXCEPT !.px[a].state = PR_STRUN ]
              ELSE st
    ELSE IF st.px[a].state = PR_STRUN
         THEN [ DisableListeners(a, st) EXCEPT !.px[a].state = PR_STIDLE ]
         ELSE st

\* the admission step of maintain_proxies for one proxy; st = [px, li, listeners]
AdmitOne(a, st) ==
    IF actconn < GlobalMaxconn
    THEN IF Blocked(st.px[a], wait[a])
         THEN IF st.px[a].state = PR_STRUN
              THEN [ DisableListeners(a, st) EXCEPT !.px[a].state = PR_STIDLE ]
              ELSE st
         ELSE IF st.px[a].state = PR_STIDLE
              THEN [ EnableListeners(a, st) EXCEPT !.px[a].state = PR_STRUN ]
              ELSE st
    ELSE IF st.px[a].state = PR_STRUN
         THEN [ DisableListeners(a, st) EXCEPT !.px[a].state = PR_STIDLE ]
         ELSE st

RECURSIVE AdmitLoop(_, _)
AdmitLoop(i, st) ==
    IF i > Len(proxy) THEN st ELSE AdmitLoop(i + 1, AdmitOne(proxy[i], st))

\* a drain step that lets a proxy run through the tick of its stop_time
DrainOne_StrictlyAfter(a, st) ==
    IF /\ st.px[a].state # PR_STSTOPPED
       /\ tick_remain(now_ms, st.px[a].stop_time) = 0
       /\ st.px[a].stop_time # now_ms
    THEN stop_proxy(a, st)
    ELSE st

\* a drain step that stops a proxy without looking at its stop_time
DrainOne_IgnoreTime(a, st) ==
    IF st.px[a].state # PR_STSTOPPED THEN stop_proxy(a, st) ELSE st

\* the drain step of maintain_proxies for one proxy
DrainOne(a, st) ==
    IF st.px[a].state # PR_STSTOPPED /\ tick_remain(now_ms, st.px[a].stop_time) = 0
    THEN stop_proxy(a, st)
    ELSE st

RECURSIVE DrainLoop(_, _)
DrainLoop(i, st) ==
    IF i > Len(proxy) THEN st ELSE DrainLoop(i + 1, DrainOne(proxy[i], st))

maintain_proxies ==
    LET st0 == [ px |-> px, li |-> li, listeners |-> listeners ]
        st1 == AdmitLoop(1, st0)
    IN IF stopping THEN DrainLoop(1, st1) ELSE st1

MaintainProxies ==
    /\ LET r == maintain_proxies
       IN /\ px' = r.px
          /\ li' = r.li
          /\ listeners' = r.listeners
    /\ hist' = [ NoHist EXCEPT !.op = "maintain_proxies", !.pre = PreStates ]
    /\ UNCHANGED << proxy, used_proxy_id, id_dangling, srv, tasks,
                    actconn, stopping, now_ms, wait, sess >>

\* --------------------------------------------------------------- soft_stop
\* a soft_stop that arms the timer of a stopped proxy too
soft_stop_RearmStopped(pxs, t) ==
    [ a \in PxAddr |->
        IF Live(a)
        THEN [ pxs[a] EXCEPT !.stop_time = tick_add(t, pxs[a].grace) ]
        ELSE pxs[a] ]

\* the stop_time soft_stop arms on every proxy that is not stopped, at tick t
soft_stop(pxs, t) ==
    [ a \in PxAddr |->
        IF Live(a) /\ pxs[a].state # PR_STSTOPPED
        THEN [ pxs[a] EXCEPT !.stop_time = tick_add(t, pxs[a].grace) ]
        ELSE pxs[a] ]

\* soft_stop reads the clock again (tv_update_date) before it arms the timers:
\* now_ms is the tick it then sees, and Tick is every advance of the clock
SoftStop ==
    /\ stopping' = TRUE
    /\ px' = soft_stop(px, now_ms)
    /\ hist' = [ NoHist EXCEPT !.op = "soft_stop" ]
    /\ UNCHANGED << proxy, li, listeners, used_proxy_id, id_dangling, srv, tasks,
                    actconn, now_ms, wait, sess >>

\* -------------------------------------------------------------- stop_proxy
StopProxy ==
    \E a \in Range(proxy) :
        /\ LET r == stop_proxy(a, [ px |-> px, li |-> li, listeners |-> listeners ])
           IN /\ px' = r.px
              /\ li' = r.li
              /\ listeners' = r.listeners
        /\ hist' = [ NoHist EXCEPT !.op = "stop_proxy", !.px = a ]
        /\ UNCHANGED << proxy, used_proxy_id, id_dangling, srv, tasks,
                        actconn, stopping, now_ms, wait, sess >>


\* ----------------------------------------------------------- pause_proxies
Pausable(p) ==
    /\ PR_CAP_FE \in p.cap
    /\ p.state # PR_STERROR
    /\ p.state # PR_STSTOPPED
    /\ p.state # PR_STPAUSED

RECURSIVE PauseAllLoop(_, _, _)
\* acc = [px, li, err, paused]
PauseAllLoop(i, acc, io) ==
    IF i > Len(proxy) THEN acc
    ELSE LET a == proxy[i]
         IN IF Pausable(acc.px[a])
            THEN LET r == pause_proxy(acc.px[a], acc.li, io)
                 IN PauseAllLoop(i + 1,
                        [ px |-> [ acc.px EXCEPT ![a].state = r.state ],
                          li |-> r.li,
                          err |-> acc.err \/ r.state # PR_STPAUSED,
                          paused |-> acc.paused \cup {a} ], io)
            ELSE PauseAllLoop(i + 1, acc, io)

\* a pause_proxies that does not fall back to soft_stop
pause_proxies_NoSoftStop(io, t) ==
    LET r == PauseAllLoop(1, [ px |-> px, li |-> li, err |-> FALSE, paused |-> {} ], io)
    IN [ px |-> r.px, li |-> r.li, stopping |-> stopping,
         err |-> r.err, paused |-> r.paused ]

pause_proxies(io, t) ==
    LET r == PauseAllLoop(1, [ px |-> px, li |-> li, err |-> FALSE, paused |-> {} ], io)
    IN [ px |-> IF r.err THEN soft_stop(r.px, t) ELSE r.px,
         li |-> r.li,
         stopping |-> IF r.err THEN TRUE ELSE stopping,
         err |-> r.err, paused |-> r.paused ]

\* the listeners whose socket calls are inputs of an operation on the proxies in S
ListenersOf(S) == { l \in LiIds : \E a \in S : l \in Range(px[a].listen) }

SockInputs(S) ==
    { Extend(io, "none") : io \in
        { f \in [ ListenersOf(S) -> SockOutcomes ] :
            \A l \in ListenersOf(S) : SockOutcomeOk(li[l], f[l]) } }

\* the listeners whose shutdown/listen/shutdown sequence completed
Completed(io) == { l \in LiIds : io[l] = "ok" }

PauseProxies ==
    \E io \in SockInputs({ a \in Range(proxy) : Pausable(px[a]) }) :
        LET r == pause_proxies(io, now_ms)
        IN /\ px' = r.px
           /\ li' = r.li
           /\ stopping' = r.stopping
           /\ hist' = [ NoHist EXCEPT !.op = "pause_proxies", !.pre = PreStates,
                                      !.okl = Completed(io), !.paused = r.paused,
                                      !.ret = IF r.err THEN 1 ELSE 0 ]
           /\ UNCHANGED << proxy, listeners, used_proxy_id, id_dangling, srv, tasks,
                           actconn, now_ms, wait, sess >>

\* ---------------------------------------------------------- listen_proxies
RECURSIVE ListenLoop_RunWhenFull(_, _, _, _, _)
\* a listener loop that resumes a proxy without looking at the session limits
ListenLoop_RunWhenFull(a, k, acc, lsn, io) ==
    LET ls == acc.px[a].listen
    IN IF k > Len(ls) THEN acc
       ELSE IF lsn[ls[k]]
            THEN ListenLoop_RunWhenFull(a, k + 1,
                     [ acc EXCEPT !.li[ls[k]].rd = TRUE, !.px[a].state = PR_STRUN ],
                     lsn, io)
            ELSE LET r == pause_proxy(acc.px[a], acc.li, io)
                 IN [ px |-> [ acc.px EXCEPT ![a].state = r.state ],
                      li |-> r.li,
                      paused |-> acc.paused \cup {a} ]

RECURSIVE ListenLoop_NoBreak(_, _, _, _, _)
\* a listener loop that goes on to the next listener after a failed listen()
ListenLoop_NoBreak(a, k, acc, lsn, io) ==
    LET ls == acc.px[a].listen
    IN IF k > Len(ls) THEN acc
       ELSE IF lsn[ls[k]]
            THEN IF actconn < GlobalMaxconn /\ acc.px[a].feconn < acc.px[a].maxconn
                 THEN ListenLoop_NoBreak(a, k + 1,
                          [ acc EXCEPT !.li[ls[k]].rd = TRUE, !.px[a].state = PR_STRUN ],
                          lsn, io)
                 ELSE ListenLoop_NoBreak(a, k + 1,
                          [ acc EXCEPT !.px[a].state = PR_STIDLE ], lsn, io)
            ELSE LET r == pause_proxy(acc.px[a], acc.li, io)
                 IN ListenLoop_NoBreak(a, k + 1,
                        [ px |-> [ acc.px EXCEPT ![a].state = r.state ],
                          li |-> r.li,
                          paused |-> acc.paused \cup {a} ], lsn, io)

RECURSIVE ListenLoop(_, _, _, _, _)
\* the listener loop of one PAUSED proxy; acc = [px, li, paused]
ListenLoop(a, k, acc, lsn, io) ==
    LET ls == acc.px[a].listen
    IN IF k > Len(ls) THEN acc
       ELSE IF lsn[ls[k]]
            THEN IF actconn < GlobalMaxconn /\ acc.px[a].feconn < acc.px[a].maxconn
                 THEN ListenLoop(a, k + 1,
                          [ acc EXCEPT !.li[ls[k]].rd = TRUE, !.px[a].state = PR_STRUN ],
                          lsn, io)
                 ELSE ListenLoop(a, k + 1,
                          [ acc EXCEPT !.px[a].state = PR_STIDLE ], lsn, io)
            ELSE LET r == pause_proxy(acc.px[a], acc.li, io)
                 IN [ px |-> [ acc.px EXCEPT ![a].state = r.state ],
                      li |-> r.li,
                      paused |-> acc.paused \cup {a} ]

RECURSIVE ListenAllLoop(_, _, _, _)
ListenAllLoop(i, acc, lsn, io) ==
    IF i > Len(proxy) THEN acc
    ELSE IF acc.px[proxy[i]].state = PR_STPAUSED
         THEN ListenAllLoop(i + 1, ListenLoop(proxy[i], 1, acc, lsn, io), lsn, io)
         ELSE ListenAllLoop(i + 1, acc, lsn, io)

listen_proxies(lsn, io) ==
    ListenAllLoop(1, [ px |-> px, li |-> li, paused |-> {} ], lsn, io)

PausedProxies == { a \in Range(proxy) : px[a].state = PR_STPAUSED }

\* listen() results: an input for every listener of a PAUSED proxy
ListenInputs ==
    { Extend(f, TRUE) : f \in [ ListenersOf(PausedProxies) -> BOOLEAN ] }

ListenProxies ==
    \E lsn \in ListenInputs :
      \E io \in SockInputs({ a \in PausedProxies :
                               \E l \in Range(px[a].listen) : ~lsn[l] }) :
        LET r == listen_proxies(lsn, io)
        IN /\ px' = r.px
           /\ li' = r.li
           /\ hist' = [ NoHist EXCEPT !.op = "listen_proxies", !.pre = PreStates,
                                      !.okl = Completed(io), !.paused = r.paused,
                                      !.nolisten = { l \in LiIds : ~lsn[l] } ]
           /\ UNCHANGED << proxy, listeners, used_proxy_id, id_dangling, srv, tasks,
                           actconn, stopping, now_ms, wait, sess >>

\* a direct call of pause_proxy on any proxy of the list
PauseProxy ==
    \E a \in Range(proxy) :
      \E io \in SockInputs({a}) :
        LET r == pause_proxy(px[a], li, io)
        IN /\ px' = [ px EXCEPT ![a].state = r.state ]
           /\ li' = r.li
           /\ hist' = [ NoHist EXCEPT !.op = "pause_proxy", !.px = a,
                                      !.pre = PreStates, !.okl = Completed(io) ]
           /\ UNCHANGED << proxy, listeners, used_proxy_id, id_dangling, srv, tasks,
                           actconn, stopping, now_ms, wait, sess >>

\* ------------------------------------------------------------- environment
\* a listener polled for read accepts a session (the accept loop's own limits)
Accept ==
    \E a \in Range(proxy) :
        /\ PR_CAP_FE \in px[a].cap
        /\ \E l \in Range(px[a].listen) : li[l].rd /\ li[l].state >= LI_LISTEN
        /\ px[a].feconn < px[a].maxconn
        /\ actconn < GlobalMaxconn
        /\ px' = [ px EXCEPT ![a].feconn = @ + 1 ]
        /\ actconn' = actconn + 1
        /\ hist' = [ NoHist EXCEPT !.op = "accept", !.px = a ]
        /\ UNCHANGED << proxy, li, listeners, used_proxy_id, id_dangling, srv, tasks,
                        stopping, now_ms, wait, sess >>

\* a session of frontend a ends
Release ==
    \E a \in Range(proxy) :
        /\ px[a].feconn > 0
        /\ px' = [ px EXCEPT ![a].feconn = @ - 1 ]
        /\ actconn' = actconn - 1
        /\ hist' = [ NoHist EXCEPT !.op = "release", !.px = a ]
        /\ UNCHANGED << proxy, li, listeners, used_proxy_id, id_dangling, srv, tasks,
                        stopping, now_ms, wait, sess >>

\* the session-rate counter of a rate-limited frontend fills up or settles
RateLimit ==
    \E a \in Range(proxy) :
        /\ px[a].fe_sps_lim # 0
        /\ wait' = [ wait EXCEPT ![a] = 1 - @ ]
        /\ hist' = [ NoHist EXCEPT !.op = "rate", !.px = a ]
        /\ UNCHANGED << proxy, px, li, listeners, used_proxy_id, id_dangling, srv, tasks,
                        actconn, stopping, now_ms, sess >>

Tick ==
    /\ now_ms < MaxTime
    /\ now_ms' = now_ms + 1
    /\ hist' = [ NoHist EXCEPT !.op = "tick" ]
    /\ UNCHANGED << proxy, px, li, listeners, used_proxy_id, id_dangling, srv, tasks,
                    actconn, stopping, wait, sess >>


\* -------------------------------------------------------------- addbackend
\* characters invalid_char accepts in an identifier
ValidChars == { "f", "b", "n", "l", "s", "t", "_", "-", ".", ":" } \cup Range(Digits)

invalid_char(name) == \E i \in 1..Len(name) : name[i] \notin ValidChars

\* the keys the used_proxy_id tree holds
ProxyKeys == { px[n].uuid : n \in used_proxy_id }

\* get_next_id: the smallest id >= key that the tree does not hold
get_next_id(keys, key) ==
    CHOOSE k \in key..(key + Cardinality(keys)) :
        k \notin keys /\ \A j \in key..(k - 1) : j \in keys

\* what get_next_id can return: a walk through a tree that holds a node in
\* freed (or reused and zeroed) memory may end anywhere
NextProxyIds ==
    IF id_dangling THEN 1..(Len(proxy) + 1) ELSE { get_next_id(ProxyKeys, 1) }

\* a name check that only refuses a proxy of the very same capabilities
NameCollides_SameCapOnly(id, cap) ==
    \E c \in Range(proxy) : px[c].id = id /\ px[c].cap = cap

\* the name check of addbackend against the proxies of the list
NameCollides(id, cap) ==
    \E c \in Range(proxy) :
        /\ px[c].id = id
        /\ (cap # {PR_CAP_FE, PR_CAP_RS} \/ px[c].cap # {PR_CAP_BE, PR_CAP_RS})
        /\ (cap # {PR_CAP_BE, PR_CAP_RS} \/ px[c].cap # {PR_CAP_FE, PR_CAP_RS})

\* addresses calloc may return for a struct proxy: any that holds no live proxy
FreePxAddr == PxAddr \ Range(proxy)

AddBackendFails(id, a) ==
    \/ id = << >>
    \/ invalid_char(id)
    \/ NameCollides(id, {PR_CAP_BE, PR_CAP_RS})
    \/ a = NULL

AddBackendOp(names) ==
    \E id \in names, a \in FreePxAddr \cup {NULL}, uid \in NextProxyIds :
        /\ IF AddBackendFails(id, a)
           THEN /\ UNCHANGED << proxy, px, used_proxy_id >>
                /\ hist' = [ NoHist EXCEPT !.op = "addbackend", !.name = id,
                                           !.ret = 1 ]
           ELSE /\ px' = [ px EXCEPT ![a] =
                             [ NewProxy(id, {PR_CAP_BE, PR_CAP_RS}, uid) EXCEPT
                                 !.acl_l7 = TRUE ] ]
                /\ proxy' = << a >> \o proxy
                /\ used_proxy_id' = used_proxy_id \cup {a}
                /\ hist' = [ NoHist EXCEPT !.op = "addbackend", !.name = id, !.px = a,
                                           !.ret = 0 ]
        /\ UNCHANGED << li, listeners, id_dangling, srv, tasks,
                        actconn, stopping, now_ms, wait, sess >>

\* ----------------------------------------------------------------- strings
IsDigit(c) == c \in Range(Digits)

DigitVal(c) == CHOOSE d \in 0..9 : Digits[d + 1] = c

RECURSIVE atoi_from(_, _, _)
atoi_from(s, i, acc) ==
    IF i > Len(s) \/ ~IsDigit(s[i]) THEN acc
    ELSE atoi_from(s, i + 1, acc * 10 + DigitVal(s[i]))

\* atoi: the value of the leading decimal digits, 0 when there is none (the
\* names of the model hold no white space and no sign)
atoi(s) == atoi_from(s, 1, 0)

RECURSIVE Decimal(_)
\* the decimal digits of n, as "%d" prints them
Decimal(n) ==
    IF n < 10 THEN << Digits[n + 1] >>
    ELSE Decimal(n \div 10) \o << Digits[(n % 10) + 1] >>

\* the name "#<n>" that designates an object by its numeric id
HashId(n) == << "#" >> \o Decimal(n)

\* --------------------------------------------------- findproxy, findserver
\* st = [proxy, px, srv, tasks]: the registry an operation works on
RegState == [ proxy |-> proxy, px |-> px, srv |-> srv, tasks |-> tasks ]

findproxy(st, name, cap) ==
    LET m == { i \in 1..Len(st.proxy) :
                 cap \subseteq st.px[st.proxy[i]].cap /\ st.px[st.proxy[i]].id = name }
    IN IF Cardinality(m) = 1 THEN st.proxy[CHOOSE i \in m : TRUE] ELSE NULL

findserver(st, a, name) ==
    IF a = NULL THEN NULL
    ELSE LET ls == st.px[a].srv
             m == { i \in 1..Len(ls) : st.srv[ls[i]].id = name }
         IN IF Cardinality(m) = 1 THEN ls[CHOOSE i \in m : TRUE] ELSE NULL

\* ------------------------------------------------------ get_backend_server
\* the first element of the list ls that is in the set M of matching
\* objects, NULL when none is
FirstMatch(ls, M) ==
    IF \E i \in 1..Len(ls) : ls[i] \in M
    THEN ls[CHOOSE i \in 1..Len(ls) : ls[i] \in M /\ \A j \in 1..(i - 1) : ls[j] \notin M]
    ELSE NULL

\* the id a name that starts with '#' designates, 0 for any other name
NumericId(name) ==
    IF Len(name) > 0 /\ name[1] = "#" THEN atoi(Tail(name)) ELSE 0

get_backend_server(bk_name, sv_name) ==
    LET pid == NumericId(bk_name)
        sid == NumericId(sv_name)
        PxMatch == { a \in PxAddr :
                       /\ PR_CAP_BE \in px[a].cap
                       /\ \/ pid # 0 /\ px[a].uuid = pid
                          \/ pid = 0 /\ px[a].id = bk_name }
        p == FirstMatch(proxy, PxMatch)
        SvMatch == { x \in SrvAddr :
                       \/ sid # 0 /\ srv[x].puid = sid
                       \/ sid = 0 /\ srv[x].id = sv_name }
        sv == IF p = NULL THEN NULL ELSE FirstMatch(px[p].srv, SvMatch)
    IN [ bk |-> p, sv |-> sv, ret |-> IF p # NULL /\ sv # NULL THEN 1 ELSE 0 ]

\* the names get_backend_server is called with
BkArgs == { <<"n">>, <<"b">> } \cup { HashId(u) : u \in 0..(MaxPx + 1) }
SvArgs == SrvNames \cup { HashId(u) : u \in 0..1 }

GetBackendServer ==
    \E bk_name \in BkArgs, sv_name \in SvArgs :
        /\ LET r == get_backend_server(bk_name, sv_name)
           IN hist' = [ NoHist EXCEPT !.op = "get_backend_server",
                                      !.name = bk_name, !.sv = sv_name,
                                      !.out_bk = r.bk, !.out_sv = r.sv, !.ret = r.ret ]
        /\ UNCHANGED << proxy, px, li, listeners, used_proxy_id, id_dangling, srv, tasks,
                        actconn, stopping, now_ms, wait, sess >>

\* --------------------------------------------------------------- addserver
\* set_server_up moves a server out of MAINTAIN
set_server_up(s) == [ s EXCEPT !.state = (@ \ {"MAINTAIN"}) \cup {"RUNNING"} ]

\* addresses calloc may return for a struct server
FreeSrvAddr == { x \in SrvAddr : ~srv[x].live }

\* what can go wrong after the lookups: calloc of the server (sa = NULL),
\* str2sa, calloc of the check buffer, task_new
AddServerFailures == { "none", "addr", "chk", "task" }

\* the server addserver links: calloc zeroes it, so puid is 0
NewServer(a, svid, sa) ==
    [ id |-> svid, puid |-> 0, state |-> {"MAINTAIN", "CHECKED"},
      health |-> DEF_RISETIME, proxy |-> a, check |-> sa, live |-> TRUE ]

\* no task: what the task pointer of addserver stands for before task_queue
NoTask == [ context |-> NULL, expire |-> 0 ]

\* a successful addserver whose set_server_up runs before the task is queued
addserver_steps_UpBeforeQueue(st, a, svid, sa) ==
    LET s1 == [ st EXCEPT !.px[a].srv = << sa >> \o @,
                          !.srv[sa] = [ NoSrv EXCEPT !.live = TRUE, !.proxy = a ] ]
        s2 == [ s1 EXCEPT !.srv[sa].state = {"MAINTAIN"}, !.srv[sa].id = svid ]
        s3 == [ s2 EXCEPT !.srv[sa].health = DEF_RISETIME ]
        s4 == [ s3 EXCEPT !.srv[sa].state = @ \cup {"CHECKED"}, !.srv[sa].check = sa ]
        s5 == [ s4 EXCEPT !.srv[sa] = set_server_up(@) ]
        s6 == [ s5 EXCEPT !.tasks = @ \cup {sa} ]
        t == [ context |-> sa, expire |-> tick_add(now_ms, DEF_CHKINTR) ]
    IN << [ st |-> s1, task |-> NoTask ], [ st |-> s2, task |-> NoTask ],
          [ st |-> s3, task |-> NoTask ], [ st |-> s4, task |-> NoTask ],
          [ st |-> s5, task |-> NoTask ], [ st |-> s6, task |-> t ] >>

\* the steps of addserver once its lookups and allocations have succeeded, in
\* the order of the code: the registry after each step and the task once it
\* is queued. The check interval is that of the default-server template.
addserver_steps(st, a, svid, sa) ==
    LET s1 == [ st EXCEPT !.px[a].srv = << sa >> \o @,
                          !.srv[sa] = [ NoSrv EXCEPT !.live = TRUE, !.proxy = a ] ]
        s2 == [ s1 EXCEPT !.srv[sa].state = {"MAINTAIN"}, !.srv[sa].id = svid ]
        s3 == [ s2 EXCEPT !.srv[sa].health = DEF_RISETIME ]
        s4 == [ s3 EXCEPT !.srv[sa].state = @ \cup {"CHECKED"}, !.srv[sa].check = sa ]
        s5 == [ s4 EXCEPT !.tasks = @ \cup {sa} ]
        s6 == [ s5 EXCEPT !.srv[sa] = set_server_up(@) ]
        t == [ context |-> sa, expire |-> tick_add(now_ms, DEF_CHKINTR) ]
    IN << [ st |-> s1, task |-> NoTask ], [ st |-> s2, task |-> NoTask ],
          [ st |-> s3, task |-> NoTask ], [ st |-> s4, task |-> NoTask ],
          [ st |-> s5, task |-> t ], [ st |-> s6, task |-> t ] >>

\* an addserver that does not look for a server of the same name
addserver_NoDupCheck(st, pxid, svid, sa, fail) ==
    LET a == findproxy(st, pxid, {PR_CAP_BE})
    IN IF a = NULL \/ sa = NULL \/ fail # "none"
       THEN [ st |-> st, ret |-> NULL ]
       ELSE [ st |-> [ st EXCEPT
                         !.px[a].srv = << sa >> \o @,
                         !.srv[sa] = set_server_up(NewServer(a, svid, sa)),
                         !.tasks = @ \cup {sa} ],
              ret |-> sa ]

\* an addserver that links the server before task_new and leaves it linked
\* when task_new fails
addserver_LinkBeforeTask(st, pxid, svid, sa, fail) ==
    LET a == findproxy(st, pxid, {PR_CAP_BE})
    IN IF a = NULL \/ findserver(st, a, svid) # NULL \/ sa = NULL
          \/ fail \in {"addr", "chk"}
       THEN [ st |-> st, ret |-> NULL ]
       ELSE IF fail = "task"
            THEN [ st |-> [ st EXCEPT
                              !.px[a].srv = << sa >> \o @,
                              !.srv[sa] = NewServer(a, svid, sa) ],
                   ret |-> NULL ]
            ELSE [ st |-> [ st EXCEPT
                              !.px[a].srv = << sa >> \o @,
                              !.srv[sa] = set_server_up(NewServer(a, svid, sa)),
                              !.tasks = @ \cup {sa} ],
                   ret |-> sa ]

addserver(st, pxid, svid, sa, fail) ==
    LET a == findproxy(st, pxid, {PR_CAP_BE})
    IN IF a = NULL \/ findserver(st, a, svid) # NULL \/ sa = NULL \/ fail # "none"
       THEN [ st |-> st, ret |-> NULL ]
       ELSE [ st |-> [ st EXCEPT
                         !.px[a].srv = << sa >> \o @,
                         !.srv[sa] = set_server_up(NewServer(a, svid, sa)),
                         !.tasks = @ \cup {sa} ],
              ret |-> sa ]

AddServerOp(pxnames, svnames) ==
    \E pxid \in pxnames, svid \in svnames, sa \in FreeSrvAddr \cup {NULL},
       fail \in AddServerFailures :
        LET r == addserver(RegState, pxid, svid, sa, fail)
        IN /\ px' = r.st.px
           /\ srv' = r.st.srv
           /\ tasks' = r.st.tasks
           /\ hist' = [ NoHist EXCEPT !.op = "addserver", !.name = pxid, !.sv = svid,
                                      !.out_sv = r.ret ]
           /\ UNCHANGED << proxy, li, listeners, used_proxy_id, id_dangling,
                           actconn, stopping, now_ms, wait, sess >>

\* --------------------------------------------------------------- delserver
RemoveAt(ls, x) == SelectSeq(ls, LAMBDA y : y # x)

\* a delserver that frees the server and leaves its check task queued
delserver_KeepTask(st, pxid, svid) ==
    LET a == findproxy(st, pxid, {PR_CAP_BE})
        old == findserver(st, a, svid)
    IN IF a = NULL \/ old = NULL
       THEN [ st |-> st, ret |-> 1 ]
       ELSE [ st |-> [ st EXCEPT
                         !.px[a].srv = RemoveAt(@, old),
                         !.srv[old] = NoSrv ],
              ret |-> 0 ]

delserver(st, pxid, svid) ==
    LET a == findproxy(st, pxid, {PR_CAP_BE})
        old == findserver(st, a, svid)
    IN IF a = NULL \/ old = NULL
       THEN [ st |-> st, ret |-> 1 ]
       ELSE [ st |-> [ st EXCEPT
                         !.tasks = @ \ { st.srv[old].check },
                         !.px[a].srv = RemoveAt(@, old),
                         !.srv[old] = NoSrv ],
              ret |-> 0 ]

DelServerOp(pxnames, svnames) ==
    \E pxid \in pxnames, svid \in svnames :
        LET r == delserver(RegState, pxid, svid)
        IN /\ px' = r.st.px
           /\ srv' = r.st.srv
           /\ tasks' = r.st.tasks
           /\ hist' = [ NoHist EXCEPT !.op = "delserver", !.name = pxid, !.sv = svid,
                                      !.ret = r.ret ]
           /\ UNCHANGED << proxy, li, listeners, used_proxy_id, id_dangling,
                           actconn, stopping, now_ms, wait, sess >>

\* --------------------------------------------------------------- scheduler
\* a scheduler tick dispatches a queued check task: process_chk runs with the
\* task's context (the task of a server is named by the address of the server
\* it was created for) and queues the task again
ProcessChk ==
    \E t \in tasks :
        /\ hist' = [ NoHist EXCEPT !.op = "process_chk", !.out_sv = t ]
        /\ UNCHANGED << proxy, px, li, listeners, used_proxy_id, id_dangling, srv, tasks,
                        actconn, stopping, now_ms, wait, sess >>

\* -------------------------------------------------------------- delbackend
\* a reference check that looks at the default backends only
Referenced_DefbeOnly(a) ==
    \E c \in Range(proxy) : px[c].defbe = a

\* some proxy of the list has a as default backend or as target of a rule
Referenced(a) ==
    \E c \in Range(proxy) :
        px[c].defbe = a \/ a \in Range(px[c].switching_rules)

\* if (px->srv) in place of while (px->srv): one server removed at most
DelServers_Once(st, a) ==
    IF st.px[a].srv = << >> THEN [ st |-> st, ok |-> TRUE ]
    ELSE LET r == delserver(st, st.px[a].id, st.srv[Head(st.px[a].srv)].id)
         IN [ st |-> r.st, ok |-> r.ret = 0 ]

RECURSIVE DelServers(_, _)
\* while (px->srv) delserver(px->id, px->srv->id): ok is FALSE when a call
\* fails, which leaves px->srv as it is and the loop running for ever
DelServers(st, a) ==
    IF st.px[a].srv = << >> THEN [ st |-> st, ok |-> TRUE ]
    ELSE LET r == delserver(st, st.px[a].id, st.srv[Head(st.px[a].srv)].id)
         IN IF r.ret # 0 THEN [ st |-> st, ok |-> FALSE ]
            ELSE DelServers(r.st, a)

\* a delbackend that unlinks the proxy without removing its servers
delbackend_KeepServers(st, a) ==
    IF Referenced(a) THEN [ st |-> st, ret |-> 1 ]
    ELSE [ st |-> [ st EXCEPT !.proxy = RemoveAt(@, a), !.px[a] = NoPx ],
           ret |-> 0 ]

\* delbackend(px) for a proxy of the list: ret 2 stands for a call that does
\* not return. free(px) leaves the conf.id node of px linked in used_proxy_id.
delbackend(st, a) ==
    IF Referenced(a) THEN [ st |-> st, ret |-> 1 ]
    ELSE LET r == DelServers(st, a)
         IN IF ~r.ok THEN [ st |-> r.st, ret |-> 2 ]
            ELSE [ st |-> [ r.st EXCEPT !.proxy = RemoveAt(@, a),
                                        !.px[a] = NoPx ],
                   ret |-> 0 ]

\* the proxies delbackend is called on: those with the backend capability
Backends == { a \in Range(proxy) : PR_CAP_BE \in px[a].cap }

DelBackend ==
    \E a \in Backends :
        LET r == delbackend(RegState, a)
        IN /\ proxy' = r.st.proxy
           /\ px' = r.st.px
           /\ srv' = r.st.srv
           /\ tasks' = r.st.tasks
           /\ id_dangling' = (id_dangling \/ (r.ret = 0 /\ a \in used_proxy_id))
           /\ hist' = [ NoHist EXCEPT !.op = "delbackend", !.px = a, !.ret = r.ret,
                                      !.name = px[a].id,
                                      !.freed = Range(px[a].srv) ]
           /\ UNCHANGED << li, listeners, used_proxy_id,
                           actconn, stopping, now_ms, wait, sess >>

\* -------------------------------------------------------- add_switch_entry
add_switch_entry(st, frontend, backend, domain) ==
    LET fe == findproxy(st, frontend, {PR_CAP_FE})
        be == findproxy(st, backend, {PR_CAP_BE})
    IN IF fe = NULL \/ be = NULL
       THEN [ st |-> st, ret |-> 1 ]
       ELSE [ st |-> [ st EXCEPT !.px[fe].switching_hashtbl = @ \cup { << domain, be >> } ],
              ret |-> 0 ]

AddSwitchEntry ==
    \E frontend \in RegNames, backend \in RegNames, domain \in Domains :
        LET r == add_switch_entry(RegState, frontend, backend, domain)
        IN /\ px' = r.st.px
           /\ hist' = [ NoHist EXCEPT !.op = "add_switch_entry", !.name = backend,
                                      !.ret = r.ret ]
           /\ UNCHANGED << proxy, li, listeners, used_proxy_id, id_dangling, srv, tasks,
                           actconn, stopping, now_ms, wait, sess >>

\* ----------------------------------------------------- session_set_backend
\* a session_set_backend without the test of SN_BE_ASSIGNED
session_set_backend_NoGuard(ss, b, alloc) ==
    LET be == [ px[b] EXCEPT
                  !.beconn = @ + 1,
                  !.beconn_max = IF px[b].beconn + 1 > @ THEN px[b].beconn + 1 ELSE @,
                  !.cum_beconn = @ + 1 ]
        s1 == [ ss EXCEPT !.be = b, !.be_assigned = TRUE ]
    IN IF ~s1.hdr_idx /\ be.acl_l7
       THEN IF ~alloc
            THEN [ s |-> s1, be |-> be, ret |-> 0 ]
            ELSE [ s |-> [ s1 EXCEPT !.hdr_idx = TRUE, !.be_ana = TRUE ],
                   be |-> be, ret |-> 1 ]
       ELSE [ s |-> [ s1 EXCEPT !.be_ana = TRUE ], be |-> be, ret |-> 1 ]

\* session_set_backend(s, be): the session, the backend and the value returned;
\* alloc tells whether pool_alloc2 finds memory for the header index
session_set_backend(ss, b, alloc) ==
    IF ss.be_assigned THEN [ s |-> ss, be |-> px[b], ret |-> 1 ]
    ELSE LET be == [ px[b] EXCEPT
                       !.beconn = @ + 1,
                       !.beconn_max = IF px[b].beconn + 1 > @ THEN px[b].beconn + 1 ELSE @,
                       !.cum_beconn = @ + 1 ]
             s1 == [ ss EXCEPT !.be = b, !.be_assigned = TRUE ]
         IN IF ~s1.hdr_idx /\ be.acl_l7
            THEN IF ~alloc
                 THEN [ s |-> s1, be |-> be, ret |-> 0 ]
                 ELSE [ s |-> [ s1 EXCEPT !.hdr_idx = TRUE, !.be_ana = TRUE ],
                        be |-> be, ret |-> 1 ]
            ELSE [ s |-> [ s1 EXCEPT !.be_ana = TRUE ], be |-> be, ret |-> 1 ]

SessionSetBackend ==
    \E sid \in SessIds, b \in Backends, alloc \in BOOLEAN :
        /\ LET r == session_set_backend(sess[sid], b, alloc)
           IN /\ sess' = [ sess EXCEPT ![sid] = r.s ]
              /\ px' = [ px EXCEPT ![b] = r.be ]
              /\ hist' = [ NoHist EXCEPT !.op = "session_set_backend", !.sid = sid,
                                         !.px = b, !.ret = r.ret ]
        /\ UNCHANGED << proxy, li, listeners, used_proxy_id, id_dangling, srv, tasks,
                        actconn, stopping, now_ms, wait >>

\* ------------------------------------------------------------ specification
\* the names the lifecycle specification creates backends with
LifeNames == { <<"n">> }

AddBackend == AddBackendOp(LifeNames)

Next ==
    \/ AddBackend
    \/ StartProxies
    \/ MaintainProxies
    \/ PauseProxies
    \/ ListenProxies
    \/ SoftStop
    \/ StopProxy
    \/ Accept
    \/ Release
    \/ RateLimit
    \/ Tick

Spec == Init /\ [][Next]_vars


\* pause_proxy called on its own, between the start-up and run-time operations
NextCfg ==
    \/ StartProxies
    \/ MaintainProxies
    \/ PauseProxy
    \/ ListenProxies
    \/ StopProxy

SpecCfg == InitCfg /\ [][NextCfg]_vars

\* admission control and draining of the configured proxies under load
NextAdmit ==
    \/ StartProxies
    \/ MaintainProxies
    \/ SoftStop
    \/ Accept
    \/ Release
    \/ RateLimit
    \/ Tick

SpecAdmit == InitCfg /\ [][NextAdmit]_vars

\* the run-time mutation API on a configuration whose frontend may name the
\* configured backend as default backend or in a use_backend rule
CfgReferences ==
    { CfgFrontend,
      [ CfgFrontend EXCEPT !.defbe = 2 ],
      [ CfgFrontend EXCEPT !.switching_rules = << 2 >> ] }

InitReg == \E fe \in CfgReferences : InitWith(<< fe, CfgBackend >>)

\* the backends and servers the run-time API is exercised on
RegBackends == { <<"n">>, <<"b">> }

AddBackendReg == AddBackendOp(RegBackends \cup { <<"#", "1">>, << >> })

AddServerReg == AddServerOp({ <<"b">> }, { <<"s">>, <<"t">> })

DelServerReg == DelServerOp({ <<"b">> }, { <<"s">>, <<"t">> })

NextReg ==
    \/ AddBackendReg
    \/ DelBackend
    \/ AddServerReg
    \/ DelServerReg
    \/ ProcessChk

SpecReg == InitReg /\ [][NextReg]_vars

AddServer == AddServerOp(RegNames, SrvNames)

DelServer == DelServerOp(RegNames, SrvNames)

\* lookups by name and by numeric id among backends and servers added at run time
NextLookup ==
    \/ AddBackend
    \/ AddServer
    \/ DelServer
    \/ AddSwitchEntry
    \/ GetBackendServer

SpecLookup == InitCfg /\ [][NextLookup]_vars

\* sessions choosing their backend among configured and run-time backends
NextSess ==
    \/ AddBackend
    \/ SessionSetBackend

SpecSess == InitCfg /\ [][NextSess]_vars

\* backends created and deleted under the names of the configured proxies
CfgNames == { <<"f">>, <<"b">>, <<"l">>, <<"n">> }

AddBackendNames == AddBackendOp(CfgNames)

NextNames ==
    \/ AddBackendNames
    \/ DelBackend

SpecNames == InitCfg /\ [][NextNames]_vars

\* the shutdown sequence: soft_stop called early enough for every stop_time it
\* arms to lie within the ticks 1..MaxTime, the main loop calling
\* maintain_proxies again and again while the clock advances
InTime == now_ms + CfgGrace <= MaxTime

SoftStopInTime == InTime /\ SoftStop

PauseProxiesInTime == InTime /\ PauseProxies

NextStop ==
    \/ StartProxies
    \/ MaintainProxies
    \/ SoftStopInTime
    \/ PauseProxiesInTime
    \/ ListenProxies
    \/ Accept
    \/ Release
    \/ Tick

\* the main loop calls maintain_proxies on every turn: the call is made
\* infinitely often, whatever else runs in between
MaintainKeepsBeingCalled == []<>(hist.op = "maintain_proxies")

SpecStop ==
    /\ InitCfg
    /\ [][NextStop]_vars
    /\ WF_vars(Tick)
    /\ MaintainKeepsBeingCalled

\* the signal-driven operations on two configured proxies that take sessions
NextPause ==
    \/ StartProxies
    \/ MaintainProxies
    \/ PauseProxies
    \/ ListenProxies
    \/ StopProxy
    \/ Accept
    \/ Release
    \/ Tick

SpecPause == InitCfg /\ [][NextPause]_vars

\* the run-time mutations that can fail, called with names of proxies and
\* servers that exist and names that do not
FailNames == { <<"b">>, <<"n">> }

AddServerFail == AddServerOp(FailNames, { <<"s">>, <<"t">> })

DelServerFail == DelServerOp(FailNames, { <<"s">>, <<"t">> })

NextFail ==
    \/ AddServerFail
    \/ DelServerFail
    \/ AddSwitchEntry

SpecFail == InitCfg /\ [][NextFail]_vars

\* backends created, given servers, made targets of switching entries and
\* deleted at run time
AddServerDel == AddServerOp(LifeNames, { <<"s">>, <<"t">> })

DelServerDel == DelServerOp(LifeNames, { <<"s">>, <<"t">> })

NextDel ==
    \/ AddBackend
    \/ AddServerDel
    \/ DelServerDel
    \/ AddSwitchEntry
    \/ DelBackend

SpecDel == InitCfg /\ [][NextDel]_vars

\* ============================================================== properties

\* C1 (as stated): in every state reachable through addbackend, start_proxies,
\* maintain_proxies, pause_proxies, listen_proxies, soft_stop and stop_proxy,
\* a proxy in state RUNNING has at least one listener in READY state.
C1_RunningHasReadyListener ==
    \A a \in Range(proxy) :
        px[a].state = PR_STRUN =>
            \E l \in Range(px[a].listen) : li[l].state = LI_READY

\* C1 (amended): a proxy in state RUNNING either owns no listener at all, or
\* has at least one listener that is in READY state or whose socket is polled
\* for read.
C1_RunningListenerOrNone ==
    \A a \in Range(proxy) :
        px[a].state = PR_STRUN =>
            \/ px[a].listen = << >>
            \/ \E l \in Range(px[a].listen) : li[l].state = LI_READY \/ li[l].rd

\* C1 witness: maintain_proxies has just moved a frontend with listeners to
\* RUNNING and enabled them, next to a RUNNING backend that owns no listener.
C1_Witness ==
    /\ hist.op = "maintain_proxies"
    /\ \E a \in Range(proxy) :
           /\ px[a].state = PR_STRUN /\ hist.pre[a] = PR_STIDLE
           /\ px[a].listen # << >>
           /\ \A l \in Range(px[a].listen) : li[l].state = LI_READY /\ li[l].rd
    /\ \E b \in Range(proxy) : px[b].state = PR_STRUN /\ px[b].listen = << >>


\* C2 (as stated): after pause_proxy(p) returns, p is PAUSED if and only if
\* all of its listeners (zero or more) completed the shutdown/listen/shutdown
\* sequence, and is in ERROR otherwise.
C2_PausedIffAllCompleted ==
    hist.op = "pause_proxy" =>
        IF Range(px[hist.px].listen) \subseteq hist.okl
        THEN px[hist.px].state = PR_STPAUSED
        ELSE px[hist.px].state = PR_STERROR

\* C2 (amended): after pause_proxy(p) returns, a proxy that owns at least one
\* listener and was not in ERROR at the call is PAUSED if all of its listeners
\* completed the sequence and in ERROR otherwise; a proxy already in ERROR
\* stays in ERROR; a proxy that owns no listener keeps the state it had.
C2_PausedIffAllCompletedNonEmpty ==
    hist.op = "pause_proxy" =>
        LET a == hist.px
            ls == Range(px[a].listen)
        IN IF ls = {} THEN px[a].state = hist.pre[a]
           ELSE IF hist.pre[a] = PR_STERROR THEN px[a].state = PR_STERROR
           ELSE IF ls \subseteq hist.okl
                THEN px[a].state = PR_STPAUSED
                ELSE px[a].state = PR_STERROR

\* C2 witness: pause_proxy has run on a proxy with two listeners of which the
\* first failed and the second completed, and left it in ERROR.
C2_Witness ==
    /\ hist.op = "pause_proxy"
    /\ Len(px[hist.px].listen) = 2
    /\ hist.pre[hist.px] # PR_STERROR
    /\ px[hist.px].listen[1] \notin hist.okl
    /\ px[hist.px].listen[2] \in hist.okl
    /\ px[hist.px].state = PR_STERROR


\* every listener of proxy a that start_proxies had to bind did bind
C3_AllBound(a) ==
    \A l \in Range(px[a].listen) :
        \/ hist.bind[l] = ERR_NONE
        \/ hist.bind[l] = NOCALL /\ li[l].state # LI_ASSIGNED

\* some listener of proxy a had its bind return ERR_FATAL or ERR_ABORT
C3_FatalBind(a) ==
    \E l \in Range(px[a].listen) :
        hist.bind[l] # NOCALL /\ hist.bind[l] \cap {ERR_FATAL, ERR_ABORT} # {}

\* a proxy earlier in the list than position i had a bind return ERR_ABORT
C3_AbortedBefore(i) ==
    \E j \in 1..(i - 1) : \E l \in Range(px[proxy[j]].listen) :
        hist.bind[l] # NOCALL /\ ERR_ABORT \in hist.bind[l]

\* C3 (as stated): after start_proxies returns, every proxy that was NEW and
\* whose ASSIGNED listeners all bound successfully is in IDLE, and every NEW
\* proxy that had a listener bind return ERR_FATAL or ERR_ABORT is still NEW.
C3_StartedIffAllBound ==
    hist.op = "start_proxies" =>
        \A i \in 1..Len(proxy) :
            hist.pre[proxy[i]] = PR_STNEW =>
                /\ C3_AllBound(proxy[i]) => px[proxy[i]].state = PR_STIDLE
                /\ C3_FatalBind(proxy[i]) => px[proxy[i]].state = PR_STNEW

\* C3 (amended): after start_proxies returns, every proxy that was NEW and
\* whose ASSIGNED listeners all bound successfully is in IDLE provided no bind
\* of a proxy earlier in the list returned ERR_ABORT, and every NEW proxy that
\* had a listener bind return ERR_FATAL or ERR_ABORT is still NEW.
C3_StartedUnlessAborted ==
    hist.op = "start_proxies" =>
        \A i \in 1..Len(proxy) :
            hist.pre[proxy[i]] = PR_STNEW =>
                /\ (C3_AllBound(proxy[i]) /\ ~C3_AbortedBefore(i))
                       => px[proxy[i]].state = PR_STIDLE
                /\ C3_FatalBind(proxy[i]) => px[proxy[i]].state = PR_STNEW

\* C3 witness: start_proxies has left one NEW proxy in NEW after a fatal bind
\* and moved another, whose listener bound, to IDLE.
C3_Witness ==
    /\ hist.op = "start_proxies"
    /\ \E a \in Range(proxy) :
           hist.pre[a] = PR_STNEW /\ C3_FatalBind(a) /\ px[a].state = PR_STNEW
    /\ \E b \in Range(proxy) :
           /\ hist.pre[b] = PR_STNEW /\ px[b].listen # << >>
           /\ \A l \in Range(px[b].listen) : hist.bind[l] = ERR_NONE
           /\ px[b].state = PR_STIDLE


\* the session-rate limiter of proxy a reports a remaining delay
C4_RateDelay(a) == px[a].fe_sps_lim # 0 /\ wait[a] # 0

\* the grace period of proxy a is over: maintain_proxies stops it
C4_Expired(a) == stopping /\ tick_remain(now_ms, px[a].stop_time) = 0

\* no listener of proxy a is READY
C4_Disabled(a) == \A l \in Range(px[a].listen) : li[l].state # LI_READY

\* no listener of proxy a is left in LISTEN state
C4_Enabled(a) == \A l \in Range(px[a].listen) : li[l].state # LI_LISTEN

\* C4 (as stated): a RUNNING proxy with feconn >= maxconn is, after the next
\* maintain_proxies, IDLE with all its listeners disabled; an IDLE proxy with
\* feconn < maxconn and no rate-limit delay is, after the next
\* maintain_proxies, RUNNING with its listeners enabled.
C4_BlockAndUnblock ==
    hist.op = "maintain_proxies" =>
        \A a \in Range(proxy) :
            /\ (hist.pre[a] = PR_STRUN /\ px[a].feconn >= px[a].maxconn)
                   => (px[a].state = PR_STIDLE /\ C4_Disabled(a))
            /\ (hist.pre[a] = PR_STIDLE /\ px[a].feconn < px[a].maxconn
                                        /\ ~C4_RateDelay(a))
                   => (px[a].state = PR_STRUN /\ C4_Enabled(a))

\* C4 (amended): as stated, except that a proxy whose stop_time has expired
\* while the process is stopping ends the call STOPPED, and that an IDLE proxy
\* is only moved back to RUNNING by a call made while actconn is below
\* global.maxconn.
C4_BlockAndUnblockUnlessStopped ==
    hist.op = "maintain_proxies" =>
        \A a \in Range(proxy) :
            /\ (hist.pre[a] = PR_STRUN /\ px[a].feconn >= px[a].maxconn)
                   => IF C4_Expired(a)
                      THEN px[a].state = PR_STSTOPPED
                      ELSE px[a].state = PR_STIDLE /\ C4_Disabled(a)
            /\ (hist.pre[a] = PR_STIDLE /\ px[a].feconn < px[a].maxconn
                                        /\ ~C4_RateDelay(a)
                                        /\ actconn < GlobalMaxconn)
                   => IF C4_Expired(a)
                      THEN px[a].state = PR_STSTOPPED
                      ELSE px[a].state = PR_STRUN /\ C4_Enabled(a)

\* C4 witness: below global.maxconn, maintain_proxies has blocked a RUNNING
\* proxy that is full and, in the same call, unblocked an IDLE one that is not.
C4_Witness ==
    /\ hist.op = "maintain_proxies"
    /\ actconn < GlobalMaxconn
    /\ \E a \in Range(proxy) :
           /\ hist.pre[a] = PR_STRUN /\ px[a].feconn >= px[a].maxconn
           /\ px[a].listen # << >>
           /\ px[a].state = PR_STIDLE
           /\ \A l \in Range(px[a].listen) : li[l].state = LI_LISTEN /\ ~li[l].rd
    /\ \E b \in Range(proxy) :
           /\ hist.pre[b] = PR_STIDLE /\ px[b].feconn < px[b].maxconn
           /\ px[b].listen # << >>
           /\ px[b].state = PR_STRUN
           /\ \A l \in Range(px[b].listen) : li[l].state = LI_READY /\ li[l].rd


\* C5: delbackend(px) returns 1 and leaves the proxy list, every proxy, every
\* server and the check tasks unchanged if and only if another proxy has px as
\* default backend or as the target of one of its switching rules; otherwise it
\* returns 0 and px is no longer in the proxy list.
C5_RefusesIffReferenced ==
    [][ hist'.op = "delbackend" =>
          IF \E c \in Range(proxy) \ {hist'.px} :
                 px[c].defbe = hist'.px \/ hist'.px \in Range(px[c].switching_rules)
          THEN /\ hist'.ret = 1
               /\ UNCHANGED << proxy, px, srv, tasks, used_proxy_id >>
          ELSE /\ hist'.ret = 0
               /\ hist'.px \notin Range(proxy') ]_vars

\* C5 witness: delbackend has refused to delete a backend that holds a server
\* and that a use_backend rule of the frontend points at.
C5_Witness ==
    /\ hist.op = "delbackend" /\ hist.ret = 1
    /\ hist.px \in Range(proxy)
    /\ px[hist.px].srv # << >>
    /\ \E c \in Range(proxy) \ {hist.px} : hist.px \in Range(px[c].switching_rules)


C7_IdReleased ==
    used_proxy_id = Range(proxy)


\* C8 (as stated): for a backend B created by addbackend (the only proxies
\* with acl_requires set to ACL_USE_L7_ANY here) and a server S that addserver
\* added to it, get_backend_server("#" + B.uuid, "#" + S.puid) returns 1 with
\* bk = B and sv = S.
C8_LookupById ==
    \A b \in Range(proxy) : \A x \in Range(px[b].srv) :
        ( /\ hist.op = "get_backend_server"
          /\ px[b].acl_l7
          /\ hist.name = HashId(px[b].uuid)
          /\ hist.sv = HashId(srv[x].puid) )
        => (hist.ret = 1 /\ hist.out_bk = b /\ hist.out_sv = x)

\* C9 (as stated): no two servers in the server list of one proxy have the
\* same puid.
C9_PuidUnique ==
    \A a \in Range(proxy) : \A i, j \in 1..Len(px[a].srv) :
        i # j => srv[px[a].srv[i]].puid # srv[px[a].srv[j]].puid


\* C10: a call of session_set_backend on a session that has no backend yet
\* increments beconn and cum_beconn of that backend by exactly one, sets
\* session.be to it and marks the session assigned; a call on a session that
\* is assigned (so every second call in a row) returns 1 and changes no
\* session and no proxy field: two calls count once and keep the first backend.
C10_Idempotent ==
    [][ hist'.op = "session_set_backend" =>
          IF sess[hist'.sid].be_assigned
          THEN hist'.ret = 1 /\ UNCHANGED << sess, px >>
          ELSE /\ px'[hist'.px].beconn = px[hist'.px].beconn + 1
               /\ px'[hist'.px].cum_beconn = px[hist'.px].cum_beconn + 1
               /\ sess'[hist'.sid].be = hist'.px
               /\ sess'[hist'.sid].be_assigned
               /\ \A a \in PxAddr \ {hist'.px} : px'[a] = px[a]
               /\ \A t \in SessIds \ {hist'.sid} : sess'[t] = sess[t] ]_vars

\* C10 witness: a second call, made with another backend, has returned 1 and
\* left the session on the backend of the first call, counted once.
C10_Witness ==
    /\ hist.op = "session_set_backend" /\ hist.ret = 1
    /\ sess[hist.sid].be_assigned
    /\ sess[hist.sid].be # hist.px
    /\ px[sess[hist.sid].be].beconn = 1
    /\ px[sess[hist.sid].be].cum_beconn = 1
    /\ px[hist.px].beconn = 0


\* C11: addbackend(name) returns 1 and leaves the proxy list, every proxy and
\* the ID tree unchanged whenever the list holds a proxy named name whose
\* capability set is not exactly FE|RS (so the second of two calls with one
\* name fails); a frontend (FE|RS) of that name does not make the call fail.
C11_NameCollisionFails ==
    [][ hist'.op = "addbackend" =>
          /\ (\E c \in Range(proxy) :
                 px[c].id = hist'.name /\ px[c].cap # {PR_CAP_FE, PR_CAP_RS})
               => /\ hist'.ret = 1
                  /\ UNCHANGED << proxy, px, used_proxy_id, srv, tasks >>
          /\ hist'.ret = 1 => UNCHANGED << proxy, px, used_proxy_id, srv, tasks >> ]_vars

\* C11 witness: with memory left for a proxy, a second addbackend("f") has
\* failed on the backend "f" that a first call created next to the frontend
\* "f".
C11_Witness ==
    /\ hist.op = "addbackend" /\ hist.ret = 1 /\ hist.name = <<"f">>
    /\ FreePxAddr # {}
    /\ \E c \in Range(proxy) :
           px[c].id = <<"f">> /\ px[c].cap = {PR_CAP_FE, PR_CAP_RS}
    /\ \E c \in Range(proxy) :
           px[c].id = <<"f">> /\ px[c].cap = {PR_CAP_BE, PR_CAP_RS} /\ px[c].acl_l7


\* C12: after a successful addserver(backend, name, ...), findserver(backend,
\* name) returns the new server and the server list of the backend holds it
\* exactly once; and in every state reached through addserver and delserver
\* no server list holds two servers of the same name.
C12_AddedOnceNoDuplicate ==
    /\ \A a \in Range(proxy) : \A i, j \in 1..Len(px[a].srv) :
           i # j => srv[px[a].srv[i]].id # srv[px[a].srv[j]].id
    /\ (hist.op = "addserver" /\ hist.out_sv # NULL) =>
           LET a == findproxy(RegState, hist.name, {PR_CAP_BE})
           IN /\ a # NULL
              /\ findserver(RegState, a, hist.sv) = hist.out_sv
              /\ Cardinality({ i \in 1..Len(px[a].srv) :
                                 px[a].srv[i] = hist.out_sv }) = 1
              /\ srv[hist.out_sv].id = hist.sv

\* C12 witness: addserver has linked a second server, of another name, at the
\* head of the server list of a backend.
C12_Witness ==
    /\ hist.op = "addserver" /\ hist.out_sv # NULL
    /\ \E a \in Range(proxy) :
           /\ Len(px[a].srv) = 2
           /\ px[a].srv[1] = hist.out_sv
           /\ srv[px[a].srv[2]].id # hist.sv


\* C13: a delserver that returns 0 leaves the check task of the deleted server
\* out of the scheduler queue, the server out of the server list of its
\* backend and its memory released; every task left in the queue has a server
\* that is allocated as context, and every check task the scheduler
\* dispatches runs on an allocated server that is in the list of its backend.
C13_TaskGoneWithServer ==
    [][ /\ (hist'.op = "delserver" /\ hist'.ret = 0) =>
              LET a == findproxy(RegState, hist'.name, {PR_CAP_BE})
                  old == findserver(RegState, a, hist'.sv)
              IN /\ old # NULL
                 /\ srv[old].check \notin tasks'
                 /\ old \notin Range(px'[a].srv)
                 /\ ~srv'[old].live
        /\ \A t \in tasks' : srv'[t].live /\ srv'[t].check = t
        /\ hist'.op = "process_chk" =>
              /\ srv'[hist'.out_sv].live
              /\ hist'.out_sv \in Range(px'[srv'[hist'.out_sv].proxy].srv) ]_vars

\* C13 witness: delserver has deleted one of the two servers of a backend; the
\* check task of the other one is the only task left in the queue.
C13_Witness ==
    /\ hist.op = "delserver" /\ hist.ret = 0
    /\ \E a \in Range(proxy) :
           /\ px[a].id = hist.name
           /\ Len(px[a].srv) = 1
           /\ tasks = { srv[px[a].srv[1]].check }
    /\ \E x \in SrvAddr : ~srv[x].live


C15_Started ==
    \A a \in Range(proxy) :
        PR_CAP_FE \in px[a].cap => hist.pre[a] \in {PR_STIDLE, PR_STRUN}

\* C15: a pause_proxies on started proxies whose socket calls all succeed
\* leaves every FE-capable proxy PAUSED; a listen_proxies whose listen() calls
\* all succeed moves every PAUSED proxy to RUNNING if actconn < global.maxconn
\* and feconn < maxconn and to IDLE otherwise, changes no other proxy state and
\* so leaves no proxy in PAUSED, and none in ERROR that was not before.
C15_PauseListenRoundTrip ==
    /\ ( /\ hist.op = "pause_proxies" /\ C15_Started
          /\ ListenersOf(hist.paused) \subseteq hist.okl )
        => \A a \in Range(proxy) :
               IF PR_CAP_FE \in px[a].cap THEN px[a].state = PR_STPAUSED
               ELSE px[a].state = hist.pre[a]
    /\ ( hist.op = "listen_proxies" /\ hist.nolisten = {} )
        => \A a \in Range(proxy) :
               IF hist.pre[a] = PR_STPAUSED
               THEN px[a].state =
                        IF actconn < GlobalMaxconn /\ px[a].feconn < px[a].maxconn
                        THEN PR_STRUN ELSE PR_STIDLE
               ELSE px[a].state = hist.pre[a]

\* C15 witness: listen_proxies has resumed two PAUSED proxies, one to RUNNING
\* and the other, which is at maxconn, to IDLE.
C15_Witness ==
    /\ hist.op = "listen_proxies" /\ hist.nolisten = {}
    /\ \E a, b \in Range(proxy) :
           /\ hist.pre[a] = PR_STPAUSED /\ px[a].state = PR_STRUN
           /\ hist.pre[b] = PR_STPAUSED /\ px[b].state = PR_STIDLE
           /\ px[b].feconn >= px[b].maxconn


\* the proxies the loop of pause_proxies has to call pause_proxy on
C16_ToPause ==
    { a \in Range(proxy) :
        /\ PR_CAP_FE \in px[a].cap
        /\ px[a].state \notin {PR_STERROR, PR_STSTOPPED, PR_STPAUSED} }

\* C16: pause_proxies calls pause_proxy exactly on the FE-capable proxies that
\* are not in ERROR, STOPPED or PAUSED, changes nothing but the state of these
\* (and no field of any other proxy, stop_time apart), and performs soft_stop
\* (stopping set, stop_time armed to now + grace on every proxy that is not
\* STOPPED) if and only if one of the proxies it tried to pause is not PAUSED
\* afterwards; with no soft_stop, stopping and every stop_time are unchanged.
C16_PauseOrSoftStop ==
    [][ hist'.op = "pause_proxies" =>
          /\ hist'.paused = C16_ToPause
          /\ \A a \in PxAddr :
                 [ px'[a] EXCEPT !.stop_time = px[a].stop_time ] =
                 IF a \in C16_ToPause
                 THEN [ px[a] EXCEPT !.state = px'[a].state ]
                 ELSE px[a]
          /\ IF \E a \in C16_ToPause : px'[a].state # PR_STPAUSED
             THEN /\ stopping' /\ hist'.ret = 1
                  /\ \A a \in PxAddr :
                         px'[a].stop_time =
                             IF Live(a) /\ px'[a].state # PR_STSTOPPED
                             THEN tick_add(now_ms, px[a].grace)
                             ELSE px[a].stop_time
             ELSE /\ stopping' = stopping /\ hist'.ret = 0
                  /\ \A a \in PxAddr : px'[a].stop_time = px[a].stop_time ]_vars

\* C16 witness: pause_proxies has tried two frontends, one of which is PAUSED
\* and the other in ERROR, and has fallen back to soft_stop: stopping is set
\* and each has its stop_time armed to now + its own grace.
C16_Witness ==
    /\ hist.op = "pause_proxies" /\ hist.ret = 1 /\ stopping
    /\ \E a, b \in hist.paused :
           /\ px[a].state = PR_STPAUSED /\ px[b].state = PR_STERROR
           /\ px[a].stop_time = tick_add(now_ms, px[a].grace)
           /\ px[b].stop_time = tick_add(now_ms, px[b].grace)
           /\ px[a].stop_time # px[b].stop_time


\* the listeners that are accounted in the global counter: assigned or more
C17_Accounted(lis) == { l \in LiIds : lis[l].state >= LI_ASSIGNED }

\* C17: stop_proxy(p) leaves p STOPPED with none of its listeners assigned,
\* listening or ready nor polled, and the listeners counter lower by the
\* number of listeners of p that were accounted; a proxy that the drain of
\* maintain_proxies stops ends the same way. In every step the counter
\* equals the number of accounted listeners, a listener that is no longer
\* accounted never is again (it is counted down once), and the counter is
\* never negative.
C17_StoppedAndCountedOnce ==
    [][ /\ hist'.op = "stop_proxy" =>
              /\ px'[hist'.px].state = PR_STSTOPPED
              /\ listeners' = listeners -
                     Cardinality(C17_Accounted(li) \cap Range(px[hist'.px].listen))
        /\ \A a \in Range(proxy) :
               (hist'.op \in {"stop_proxy", "maintain_proxies"}
                  /\ px[a].state # px'[a].state /\ px'[a].state = PR_STSTOPPED)
               => \A l \in Range(px[a].listen) :
                      li'[l].state < LI_ASSIGNED /\ ~li'[l].rd
        /\ listeners' = Cardinality(C17_Accounted(li'))
        /\ C17_Accounted(li') \subseteq C17_Accounted(li)
        /\ listeners' >= 0 ]_vars

\* C17 witness: stop_proxy has released the two listeners of the frontend and
\* counted them down, while the listener of the other proxy is still bound
\* and accounted.
C17_Witness ==
    /\ hist.op = "stop_proxy"
    /\ px[hist.px].state = PR_STSTOPPED
    /\ Len(px[hist.px].listen) = 2
    /\ \A l \in Range(px[hist.px].listen) : li[l].state = LI_INIT
    /\ listeners = 1
    /\ \E l \in LiIds : li[l].state >= LI_LISTEN


\* C18: a call of addserver that returns nothing, of delserver that returns 1
\* or of add_switch_entry that returns 1 leaves the proxy list, every proxy
\* (its server list and its switching table with it), every server and the
\* task queue of the scheduler exactly as they were before the call.
C18_FailureChangesNothing ==
    [][ ( \/ hist'.op = "addserver" /\ hist'.out_sv = NULL
          \/ hist'.op = "delserver" /\ hist'.ret = 1
          \/ hist'.op = "add_switch_entry" /\ hist'.ret = 1 )
        => UNCHANGED << proxy, px, srv, tasks, used_proxy_id >> ]_vars

\* C18 witness: addserver has returned nothing for the name of a server that
\* the backend, which a switching table points at, already holds with its
\* check task in the queue.
C18_Witness ==
    /\ hist.op = "addserver" /\ hist.out_sv = NULL
    /\ \E a \in Range(proxy) :
           /\ px[a].id = hist.name
           /\ \E x \in Range(px[a].srv) : srv[x].id = hist.sv /\ srv[x].check \in tasks
           /\ \E c \in Range(proxy) : \E d \in Domains :
                  << d, a >> \in px[c].switching_hashtbl
    /\ FreeSrvAddr # {}


\* in this step proxy a leaves NEW for IDLE in start_proxies, with every one of
\* its listeners bound
C19_Started(a) ==
    /\ hist'.op = "start_proxies"
    /\ px'[a].state = PR_STIDLE
    /\ \A l \in Range(px[a].listen) : li'[l].state >= LI_LISTEN

\* in this step proxy a leaves NEW for STOPPED through stop_proxy, called
\* directly or by the drain of maintain_proxies
C19_Stopped(a) ==
    /\ px'[a].state = PR_STSTOPPED
    /\ \/ hist'.op = "stop_proxy" /\ hist'.px = a
       \/ hist'.op = "maintain_proxies" /\ stopping

\* C19 (as stated): a proxy in state NEW changes state only by start_proxies
\* moving it to IDLE after its listeners were bound, or by stop_proxy moving
\* it to STOPPED; pause_proxies, listen_proxies and the admission part of
\* maintain_proxies never move a NEW proxy to PAUSED, ERROR or RUNNING.
C19_NewLeavesByStartOrStop ==
    [][ \A a \in Range(proxy) :
          (px[a].state = PR_STNEW /\ px'[a].state # PR_STNEW)
          => (C19_Started(a) \/ C19_Stopped(a)) ]_vars

\* C19 (amended): a proxy in state NEW changes state only by start_proxies
\* moving it to IDLE after its listeners were bound, by stop_proxy moving it
\* to STOPPED, or, if it has the FE capability, by pause_proxies, which calls
\* pause_proxy on it, leaves it in ERROR and falls back to soft_stop;
\* listen_proxies and the admission part of maintain_proxies never move a NEW
\* proxy, and no operation moves it to PAUSED or RUNNING.
C19_NewLeavesByStartStopOrPause ==
    [][ \A a \in Range(proxy) :
          (px[a].state = PR_STNEW /\ px'[a].state # PR_STNEW)
          => \/ C19_Started(a)
             \/ C19_Stopped(a)
             \/ /\ hist'.op = "pause_proxies"
                /\ PR_CAP_FE \in px[a].cap
                /\ px'[a].state = PR_STERROR
                /\ stopping' ]_vars

\* C19 witness: pause_proxies has found a frontend still in NEW, one of whose
\* listeners is bound and the other not, has left it in ERROR and performed
\* soft_stop.
C19_Witness ==
    /\ hist.op = "pause_proxies" /\ stopping
    /\ \E a \in Range(proxy) :
           /\ hist.pre[a] = PR_STNEW /\ px[a].state = PR_STERROR
           /\ \E l \in Range(px[a].listen) : li[l].state >= LI_LISTEN
           /\ \E l \in Range(px[a].listen) : li[l].state = LI_ASSIGNED


C22_StoppedOnlyAfterGrace ==
    [][ /\ \A a \in Range(proxy) :
               ( /\ px[a].state # PR_STSTOPPED /\ px'[a].state = PR_STSTOPPED
                 /\ hist'.op \in {"start_proxies", "maintain_proxies", "pause_proxies",
                                   "listen_proxies", "soft_stop"} )
               => /\ hist'.op = "maintain_proxies"
                  /\ stopping
                  /\ px[a].stop_time # 0 /\ px[a].stop_time <= now_ms
        /\ \A a \in Range(proxy) :
               px'[a].stop_time # px[a].stop_time =>
                   /\ hist'.op \in {"soft_stop", "pause_proxies"}
                   /\ stopping'
                   /\ px'[a].stop_time = now_ms + px[a].grace
        /\ hist'.op = "soft_stop" =>
               \A a \in PxAddr : px'[a].state = px[a].state ]_vars

\* C22 witness: while stopping, maintain_proxies has stopped a proxy whose
\* stop_time is reached and has left alone another whose stop_time is ahead.
C22_Witness ==
    /\ hist.op = "maintain_proxies" /\ stopping
    /\ \E a, b \in Range(proxy) :
           /\ hist.pre[a] \notin {PR_STSTOPPED, "NONE"} /\ px[a].state = PR_STSTOPPED
           /\ px[a].stop_time # 0 /\ px[a].stop_time <= now_ms
           /\ px[b].state # PR_STSTOPPED /\ px[b].stop_time > now_ms


C24_FailedListenReverts ==
    [][ hist'.op = "listen_proxies" =>
          \A a \in Range(proxy) :
            LET ls == px[a].listen
                bad == { k \in 1..Len(ls) : ls[k] \in hist'.nolisten }
            IN (px[a].state = PR_STPAUSED /\ bad # {}) =>
                 /\ px'[a].state \in {PR_STPAUSED, PR_STERROR}
                 /\ a \in hist'.paused
                 /\ \A k \in bad : \A j \in (k + 1)..Len(ls) : ~li'[ls[j]].rd ]_vars

\* C24 witness: listen_proxies found a proxy PAUSED, listen() succeeded on its
\* first listener and failed on its second, and the proxy is PAUSED again with
\* neither listener polled.
C24_Witness ==
    /\ hist.op = "listen_proxies"
    /\ \E a \in Range(proxy) :
         /\ hist.pre[a] = PR_STPAUSED
         /\ Len(px[a].listen) >= 2
         /\ px[a].listen[1] \notin hist.nolisten
         /\ px[a].listen[2] \in hist.nolisten
         /\ a \in hist.paused
         /\ px[a].state = PR_STPAUSED
         /\ \A l \in Range(px[a].listen) : ~li[l].rd


\* C25: a proxy that is STOPPED when start_proxies, maintain_proxies,
\* pause_proxies, listen_proxies or soft_stop is called is STOPPED afterwards,
\* with the same stop_time and with every one of its listeners as it was
\* (not bound again, not polled again).
C25_StoppedIsTerminal ==
    [][ hist'.op \in { "start_proxies", "maintain_proxies", "pause_proxies",
                       "listen_proxies", "soft_stop" } =>
          \A a \in Range(proxy) :
            px[a].state = PR_STSTOPPED =>
              /\ px'[a].state = PR_STSTOPPED
              /\ px'[a].stop_time = px[a].stop_time
              /\ \A l \in Range(px[a].listen) : li'[l] = li[l] ]_vars

\* C25 witness: soft_stop has run over a STOPPED proxy with listeners, whose
\* stop_time is not the one this soft_stop arms.
C25_Witness ==
    /\ hist.op = "soft_stop"
    /\ \E a \in Range(proxy) :
         /\ px[a].state = PR_STSTOPPED
         /\ px[a].listen # << >>
         /\ px[a].stop_time # tick_add(now_ms, px[a].grace)


\* C26: after any sequence of addbackend, addserver, delserver and delbackend
\* calls (and of check-task dispatches), every server in the server list of a
\* proxy of the registry is allocated, is in no other place of any list, and
\* has its own check task queued; and every queued check task is the check
\* task of a server that is in the server list of a proxy of the registry.
C26_TasksMatchServers ==
    /\ \A a \in Range(proxy) : \A i \in 1..Len(px[a].srv) :
         LET x == px[a].srv[i]
         IN /\ srv[x].live /\ srv[x].proxy = a
            /\ srv[x].check \in tasks
            /\ \A b \in Range(proxy) : \A j \in 1..Len(px[b].srv) :
                 srv[px[b].srv[j]].check = srv[x].check => (b = a /\ j = i)
    /\ \A t \in tasks :
         \E a \in Range(proxy) : \E x \in Range(px[a].srv) :
            srv[x].live /\ srv[x].check = t

\* C26 witness: a backend has been deleted, and delserver has just removed one
\* of two servers: one server is listed and one check task is queued.
C26_Witness ==
    /\ hist.op = "delserver" /\ hist.ret = 0
    /\ Cardinality(tasks) = 1
    /\ \E a \in Range(proxy) : Len(px[a].srv) = 1
    /\ id_dangling


\* C27: when session_set_backend returns 1 for a backend that requires L7
\* processing the session has a header index, and when it returns 0 the
\* session is not left flagged BE_ASSIGNED with the backend's beconn counted.
C27_AssignedHasHeaderIndex ==
    hist.op = "session_set_backend" =>
      /\ (hist.ret = 1 /\ px[hist.px].acl_l7) => sess[hist.sid].hdr_idx
      /\ hist.ret = 0 =>
            ~(sess[hist.sid].be_assigned /\ px[hist.px].beconn > 0)


\* C28: after any sequence of addbackend, add_switch_entry and delbackend
\* calls, every entry of the switching hash table of a proxy of the registry
\* maps its domain to a proxy that is in the registry.
C28_NoEntryToRemovedBackend ==
    \A c \in Range(proxy) : \A e \in px[c].switching_hashtbl : e[2] \in Range(proxy)


RECURSIVE C29_AfterIterations(_, _, _)
\* the registry after k iterations of the server-removal loop of delbackend
C29_AfterIterations(st, a, k) ==
    IF k = 0 THEN st
    ELSE LET s == C29_AfterIterations(st, a, k - 1)
         IN delserver(s, s.px[a].id, s.srv[Head(s.px[a].srv)].id).st

\* C29: delbackend on a backend that is neither a default backend nor the
\* target of a switching rule returns 0 (it terminates); each iteration of its
\* loop is a delserver call that succeeds and removes exactly the head server
\* and its check task, so that the list is empty after as many iterations as
\* there were servers; and on return the proxy is out of the registry with
\* none of its servers allocated and none of their check tasks queued.
C29_DeleteTerminates ==
    [][ (hist'.op = "delbackend" /\ ~Referenced(hist'.px)) =>
          LET a == hist'.px
              n == Len(px[a].srv)
          IN /\ hist'.ret = 0
             /\ \A k \in 0..(n - 1) :
                  LET s == C29_AfterIterations(RegState, a, k)
                      x == Head(s.px[a].srv)
                      r == delserver(s, s.px[a].id, s.srv[x].id)
                  IN /\ a \in Range(s.proxy)
                     /\ r.ret = 0
                     /\ r.st.px[a].srv = Tail(s.px[a].srv)
                     /\ ~r.st.srv[x].live
                     /\ s.srv[x].check \in s.tasks
                     /\ r.st.tasks = s.tasks \ { s.srv[x].check }
             /\ C29_AfterIterations(RegState, a, n).px[a].srv = << >>
             /\ a \notin Range(proxy')
             /\ \A x \in Range(px[a].srv) :
                  ~srv'[x].live /\ srv[x].check \notin tasks'
             /\ tasks' = tasks \ { srv[x].check : x \in Range(px[a].srv) } ]_vars

\* C29 witness: delbackend has returned 0 on the run-time backend n, which had
\* two servers added by addserver; n is out of the registry, neither server is
\* allocated and no check task is queued.
C29_Witness ==
    /\ hist.op = "delbackend" /\ hist.ret = 0
    /\ hist.name = <<"n">>
    /\ Cardinality(hist.freed) = 2
    /\ hist.px \notin Range(proxy)
    /\ \A x \in hist.freed : ~srv[x].live
    /\ tasks = {}

====
